---- MODULE Spec2Model ----
(***************************************************************************)
(* Model of the proxy-browser server (src/server.js): the URL resolver,    *)
(* the three request handlers /meta, /asset and /proxy with the page       *)
(* rewriter, and the tab UI (createTab, loadTab, closeTab, Go).            *)
(*                                                                         *)
(* Strings are TLA+ strings, taken apart with SubSeq/Len and put together  *)
(* with \o, so that startsWith, split, trim, the regular expressions,      *)
(* encodeURIComponent and the URL parser are computed character by         *)
(* character.                                                              *)
(***************************************************************************)
EXTENDS Integers, Sequences, FiniteSets, TLC

VARIABLES
  rbase, rref, rout, rpc,          \* one call of absoluteUrl(base, relative)
  op, url, pc, up, res, client,    \* one request to the server and its upstream fetch
  tabs, tabInfo, active, pending, iframe, urlInput, nextId   \* the tab UI

resolverVars == <<rbase, rref, rout, rpc>>
serverVars   == <<op, url, pc, up, res, client>>
uiVars       == <<tabs, tabInfo, active, pending, iframe, urlInput, nextId>>
vars         == <<rbase, rref, rout, rpc, op, url, pc, up, res, client,
                  tabs, tabInfo, active, pending, iframe, urlInput, nextId>>

\* JavaScript's null, and undefined (an attribute or parameter that is not there).
Null   == "<null>"
Absent == "<undefined>"

\* JavaScript truthiness of a string-or-undefined value: (!v) is Falsy(v).
Falsy(v) == v = Absent \/ v = Null \/ v = ""

(***************************************************************************)
(* String primitives                                                       *)
(***************************************************************************)
\* Body at the value of e, with e evaluated once (a LET is re-evaluated at
\* every use when TLC measures coverage).
With(e, Body(_)) == CHOOSE r \in {Body(x) : x \in {e}} : TRUE

Ch(s, i) == SubSeq(s, i, i)

Drop(s, n) == SubSeq(s, n + 1, Len(s))

StartsWith(s, p) == Len(s) >= Len(p) /\ SubSeq(s, 1, Len(p)) = p

EndsWith(s, p) == Len(s) >= Len(p) /\ SubSeq(s, Len(s) - Len(p) + 1, Len(s)) = p

Includes(s, p) == \E i \in 1..(Len(s) - Len(p) + 1) : SubSeq(s, i, i + Len(p) - 1) = p

MinOf(S) == CHOOSE i \in S : \A j \in S : i <= j

\* Index of the first character of s that is in set, 0 when there is none.
IndexOfAny(s, set) ==
  With({i \in 1..Len(s) : Ch(s, i) \in set}, LAMBDA I : IF I = {} THEN 0 ELSE MinOf(I))

CharsOf(s) == {Ch(s, i) : i \in 1..Len(s)}

UpperAlpha == "ABCDEFGHIJKLMNOPQRSTUVWXYZ"
LowerAlpha == "abcdefghijklmnopqrstuvwxyz"
Digits     == "0123456789"

UpperChars == CharsOf(UpperAlpha)
AlphaChars == CharsOf(UpperAlpha) \cup CharsOf(LowerAlpha)
DigitChars == CharsOf(Digits)

IsAlpha(c) == c \in AlphaChars
IsDigit(c) == c \in DigitChars

LowerCh(c) ==
  IF c \in UpperChars
  THEN Ch(LowerAlpha, CHOOSE i \in 1..Len(UpperAlpha) : Ch(UpperAlpha, i) = c)
  ELSE c

\* The strings of a sequence concatenated (by halves, which keeps the
\* evaluation shallow).
RECURSIVE ConcatAll(_)
ConcatAll(strings) ==
  With(strings, LAMBDA q :
    IF Len(q) = 0 THEN ""
    ELSE IF Len(q) = 1 THEN q[1]
    ELSE ConcatAll(SubSeq(q, 1, Len(q) \div 2))
         \o ConcatAll(SubSeq(q, (Len(q) \div 2) + 1, Len(q))))

\* The strings F gives for the characters of str, concatenated.
MapChars(str, F(_)) ==
  With(str, LAMBDA s : ConcatAll([i \in 1..Len(s) |-> F(Ch(s, i))]))

\* String.prototype.toLowerCase.
toLowerCase(s) == MapChars(s, LowerCh)

\* White space of the inputs: String.prototype.trim and \s.
WhiteSpace == {" "}

RECURSIVE TrimStart(_)
TrimStart(str) ==
  With(str, LAMBDA s : IF s # "" /\ Head(s) \in WhiteSpace THEN TrimStart(Tail(s)) ELSE s)

RECURSIVE TrimEnd(_)
TrimEnd(str) ==
  With(str, LAMBDA s : IF s # "" /\ Ch(s, Len(s)) \in WhiteSpace
                       THEN TrimEnd(SubSeq(s, 1, Len(s) - 1)) ELSE s)

\* String.prototype.trim.
trim(s) == TrimEnd(TrimStart(s))

\* String.prototype.split(sep) for a one-character separator.
RECURSIVE split(_, _)
split(str, sep) ==
  With(str, LAMBDA s :
    With(IndexOfAny(s, {sep}), LAMBDA k :
      IF k = 0 THEN <<s>> ELSE <<SubSeq(s, 1, k - 1)>> \o split(Drop(s, k), sep)))

\* String.prototype.split(/\s+/).
RECURSIVE splitWS(_)
splitWS(str) ==
  With(str, LAMBDA s :
    With(IndexOfAny(s, WhiteSpace), LAMBDA k :
      IF k = 0 THEN <<s>> ELSE <<SubSeq(s, 1, k - 1)>> \o splitWS(TrimStart(Drop(s, k)))))

\* Array.prototype.join(sep).
join(array, sep) ==
  With(array, LAMBDA parts :
    ConcatAll([i \in 1..Len(parts) |-> IF i = 1 THEN parts[i] ELSE sep \o parts[i]]))

(***************************************************************************)
(* encodeURIComponent: every character but the letters, the digits and    *)
(* the nine marks of Unreserved becomes its percent escape (the printable  *)
(* ASCII characters but the grave accent are tabulated in Escapes).        *)
(***************************************************************************)
Unreserved == AlphaChars \cup DigitChars \cup CharsOf("-_.!~*'()")

Escapes ==
  << <<" ", "%20">>, <<"\"", "%22">>, <<"#", "%23">>, <<"$", "%24">>, <<"%", "%25">>,
     <<"&", "%26">>, <<"+", "%2B">>, <<",", "%2C">>, <<"/", "%2F">>, <<":", "%3A">>,
     <<";", "%3B">>, <<"<", "%3C">>, <<"=", "%3D">>, <<">", "%3E">>, <<"?", "%3F">>,
     <<"@", "%40">>, <<"[", "%5B">>, <<"\\", "%5C">>, <<"]", "%5D">>, <<"^", "%5E">>,
     <<"{", "%7B">>, <<"|", "%7C">>, <<"}", "%7D">> >>

EscapeOf(c) == Escapes[CHOOSE i \in 1..Len(Escapes) : Escapes[i][1] = c][2]

EncodeCh(c) == IF c \in Unreserved THEN c ELSE EscapeOf(c)

encodeURIComponent(s) == MapChars(s, EncodeCh)

\* Percent-encoding of the characters of encodeSet, as the URL parser does it.
PercentEncode(s, encodeSet) ==
  MapChars(s, LAMBDA c : IF c \in encodeSet THEN EscapeOf(c) ELSE c)

(***************************************************************************)
(* The URL parser behind new URL(relative, base).toString(), line 38: the  *)
(* WHATWG algorithm for the special schemes with an authority (http,       *)
(* https, ftp, ws, wss) and for the other schemes with an opaque path      *)
(* (javascript:, mailto:, data:).  Outside the inputs enumerated below,    *)
(* and not modelled: user info, IPv4/IPv6 literals, back slashes, percent  *)
(* signs in the input, file: URLs and other schemes followed by a slash.   *)
(***************************************************************************)
SpecialSchemes == {"http", "https", "ftp", "ws", "wss"}

DefaultPort(scheme) ==
  IF scheme \in {"http", "ws"} THEN 80
  ELSE IF scheme \in {"https", "wss"} THEN 443
  ELSE 21

ForbiddenHostChars ==
  {" ", "#", "/", ":", "<", ">", "?", "@", "[", "\\", "]", "^", "|", "%"}

PathEncodeSet     == {" ", "\"", "#", "<", ">", "?", "{", "}", "^"}
QueryEncodeSet    == {" ", "\"", "#", "<", ">", "'"}
FragmentEncodeSet == {" ", "\"", "<", ">"}

\* A parsed URL; Failure is what the parser returns where the constructor throws.
Failure == [ok |-> FALSE]
NoBase  == [ok |-> FALSE]

URLRecord(scheme, opaque, host, port, path, query, fragment) ==
  [ok |-> TRUE, scheme |-> scheme, opaque |-> opaque, host |-> host, port |-> port,
   path |-> path, query |-> query, fragment |-> fragment]

RECURSIVE ToNumber(_)
ToNumber(str) ==
  With(str, LAMBDA s :
    IF s = "" THEN 0
    ELSE 10 * ToNumber(SubSeq(s, 1, Len(s) - 1))
         + ((CHOOSE i \in 1..Len(Digits) : Ch(Digits, i) = Ch(s, Len(s))) - 1))

RECURSIVE NumberToString(_)
NumberToString(n) ==
  IF n < 10 THEN Ch(Digits, n + 1)
  ELSE NumberToString(n \div 10) \o Ch(Digits, (n % 10) + 1)

\* Position of the colon that ends a scheme at the start of s, 0 when s has none.
SchemeEnd(s) ==
  With(IndexOfAny(s, {":"}), LAMBDA k :
    IF /\ k > 1
       /\ IsAlpha(Ch(s, 1))
       /\ \A i \in 2..(k - 1) :
            IsAlpha(Ch(s, i)) \/ IsDigit(Ch(s, i)) \/ Ch(s, i) \in {"+", "-", "."}
    THEN k ELSE 0)

\* s cut at its first "#" and, before that, at its first "?".
SplitRef(s) ==
  With(IndexOfAny(s, {"#"}), LAMBDA h :
    With(IF h = 0 THEN s ELSE SubSeq(s, 1, h - 1), LAMBDA head :
      With(IndexOfAny(head, {"?"}), LAMBDA q :
        [path     |-> IF q = 0 THEN head ELSE SubSeq(head, 1, q - 1),
         query    |-> IF q = 0 THEN Absent ELSE Drop(head, q),
         fragment |-> IF h = 0 THEN Absent ELSE Drop(s, h)])))

EncodeQuery(q)    == IF q = Absent THEN Absent ELSE PercentEncode(q, QueryEncodeSet)
EncodeFragment(f) == IF f = Absent THEN Absent ELSE PercentEncode(f, FragmentEncodeSet)

\* The path without its last segment (the parser's "shorten").
Shorten(path) == IF Len(path) = 0 THEN <<>> ELSE SubSeq(path, 1, Len(path) - 1)

\* The path state: the segments segs appended to path, dot segments resolved.
RECURSIVE AppendSegments(_, _)
AppendSegments(path0, segs0) ==
  With(path0, LAMBDA path :
    With(segs0, LAMBDA segs :
      IF Len(segs) = 0 THEN path
      ELSE IF Head(segs) = ".."
      THEN AppendSegments(IF Len(segs) = 1 THEN Append(Shorten(path), "") ELSE Shorten(path),
                          Tail(segs))
      ELSE IF Head(segs) = "."
      THEN AppendSegments(IF Len(segs) = 1 THEN Append(path, "") ELSE path, Tail(segs))
      ELSE AppendSegments(Append(path, PercentEncode(Head(segs), PathEncodeSet)),
                          Tail(segs))))

ParsePath(path, str) == AppendSegments(path, split(str, "/"))

RECURSIVE SkipSlashes(_)
SkipSlashes(str) ==
  With(str, LAMBDA s : IF StartsWith(s, "/") THEN SkipSlashes(Tail(s)) ELSE s)

\* A special URL's host, port, path, query and fragment: auth is the authority
\* and ref what follows it.
SpecialURL(scheme, auth, ref) ==
  With(IndexOfAny(auth, {":"}), LAMBDA c :
    With(toLowerCase(IF c = 0 THEN auth ELSE SubSeq(auth, 1, c - 1)), LAMBDA host :
      With(IF c = 0 THEN "" ELSE Drop(auth, c), LAMBDA portS :
        IF \/ host = ""
           \/ CharsOf(host) \cap ForbiddenHostChars # {}
           \/ \E i \in 1..Len(portS) : ~IsDigit(Ch(portS, i))
           \/ Len(portS) > 5
           \/ ToNumber(portS) > 65535
        THEN Failure
        ELSE URLRecord(scheme, FALSE, host,
                       IF portS = "" \/ ToNumber(portS) = DefaultPort(scheme)
                       THEN Absent ELSE NumberToString(ToNumber(portS)),
                       ParsePath(<<>>, IF StartsWith(ref.path, "/")
                                       THEN Tail(ref.path) ELSE ref.path),
                       EncodeQuery(ref.query), EncodeFragment(ref.fragment)))))

\* The authority state and what follows it, after "scheme://".
ParseAuthority(scheme, str) ==
  With(str, LAMBDA s :
    With(IndexOfAny(s, {"/", "?", "#"}), LAMBDA e :
      With(SplitRef(IF e = 0 THEN "" ELSE Drop(s, e - 1)), LAMBDA ref :
        SpecialURL(scheme, IF e = 0 THEN s ELSE SubSeq(s, 1, e - 1), ref))))

\* The relative state: s, which has no scheme of its own, against base.
ParseRelative(s, base) ==
  With(SplitRef(s), LAMBDA ref :
    IF base.opaque
    THEN (IF StartsWith(s, "#")
          THEN [base EXCEPT !.fragment = EncodeFragment(ref.fragment)]
          ELSE Failure)
    ELSE IF StartsWith(s, "//")
    THEN ParseAuthority(base.scheme, SkipSlashes(s))
    ELSE IF StartsWith(s, "/")
    THEN [base EXCEPT !.path = ParsePath(<<>>, Tail(ref.path)),
                      !.query = EncodeQuery(ref.query),
                      !.fragment = EncodeFragment(ref.fragment)]
    ELSE IF ref.path = ""
    THEN [base EXCEPT !.query = IF ref.query = Absent THEN base.query
                                ELSE EncodeQuery(ref.query),
                      !.fragment = EncodeFragment(ref.fragment)]
    ELSE [base EXCEPT !.path = ParsePath(Shorten(base.path), ref.path),
                      !.query = EncodeQuery(ref.query),
                      !.fragment = EncodeFragment(ref.fragment)])

\* A URL whose scheme is not special: its path is opaque.
OpaqueURL(scheme, rest) ==
  With(SplitRef(rest), LAMBDA ref :
    URLRecord(scheme, TRUE, Absent, Absent, <<ref.path>>,
              EncodeQuery(ref.query), EncodeFragment(ref.fragment)))

\* The scheme state: s starts with a scheme that ends at position k.
ParseAbsolute(s, k, base) ==
  With(toLowerCase(SubSeq(s, 1, k - 1)), LAMBDA scheme :
    With(Drop(s, k), LAMBDA rest :
      IF scheme \in SpecialSchemes
      THEN (IF base.ok /\ base.scheme = scheme /\ ~StartsWith(rest, "//")
            THEN ParseRelative(rest, base)
            ELSE ParseAuthority(scheme, SkipSlashes(rest)))
      ELSE OpaqueURL(scheme, rest)))

\* The basic URL parser: input against base (NoBase when there is none).
ParseURL(input, base0) ==
  With(base0, LAMBDA base :
    With(trim(input), LAMBDA s :
      With(SchemeEnd(s), LAMBDA k :
        IF k = 0
        THEN (IF base.ok THEN ParseRelative(s, base) ELSE Failure)
        ELSE ParseAbsolute(s, k, base))))

\* URL.prototype.toString(): the URL serializer.
Serialize(u) ==
  u.scheme \o ":"
  \o (IF u.opaque THEN u.path[1]
      ELSE "//" \o u.host \o (IF u.port = Absent THEN "" ELSE ":" \o u.port)
           \o "/" \o join(u.path, "/"))
  \o (IF u.query = Absent THEN "" ELSE "?" \o u.query)
  \o (IF u.fragment = Absent THEN "" ELSE "#" \o u.fragment)

\* new URL(relative, base).toString(): a string, or Threw for the TypeError.
Threw == "<TypeError>"

NewURL(relative, base) ==
  With(ParseURL(base, NoBase), LAMBDA b :
    With(IF b.ok THEN ParseURL(relative, b) ELSE Failure, LAMBDA u :
      IF u.ok THEN Serialize(u) ELSE Threw))

\* function absoluteUrl(base, relative), lines 36-42.
absoluteUrl(base, relative) ==
  With(NewURL(relative, base), LAMBDA r : IF r = Threw THEN Null ELSE r)

(***************************************************************************)
(* Documents.  cheerio.load gives a tree; the model keeps of it what the   *)
(* handlers read and write: the og:title content, the title text and the   *)
(* elements in document order, each with its tag and the five attributes   *)
(* the selectors name (Absent for an attribute that is not there).         *)
(***************************************************************************)
Element(tag, href, src, rel, style, srcset) ==
  [tag |-> tag, href |-> href, src |-> src, rel |-> rel, style |-> style,
   srcset |-> srcset]

Document(ogTitle, title, elems) == [ogTitle |-> ogTitle, title |-> title, elems |-> elems]

\* The two endpoint references the rewriter writes.
ProxyRef(abs) == "/proxy?url=" \o encodeURIComponent(abs)

\* The asset reference without the percent-encoding of the URL it carries.
AssetRefUnencoded(abs) == "/asset?url=" \o abs

AssetRef(abs) == "/asset?url=" \o encodeURIComponent(abs)

\* $('a[href]').each, lines 137-143.
RewriteAnchor(el, base) ==
  IF el.tag # "a" \/ el.href = Absent THEN el
  ELSE IF Falsy(el.href) THEN el
  ELSE IF StartsWith(el.href, "#") \/ StartsWith(el.href, "javascript:") THEN el
  ELSE With(absoluteUrl(base, el.href), LAMBDA abs :
         IF ~Falsy(abs) THEN [el EXCEPT !.href = ProxyRef(abs)] ELSE el)

\* $('img[src]').each and $('script[src]').each, lines 146-156.
RewriteSrc(el, base) ==
  IF el.tag \notin {"img", "script"} \/ el.src = Absent THEN el
  ELSE With(absoluteUrl(base, el.src), LAMBDA abs :
         IF ~Falsy(abs) THEN [el EXCEPT !.src = AssetRef(abs)] ELSE el)

\* /\.(css)$/i.test(abs.split('?')[0]), line 164.
EndsInCss(abs) ==
  With(toLowerCase(split(abs, "?")[1]), LAMBDA head : EndsWith(head, ".css"))

\* The endpoint a link's href is routed to, line 164.
LinkRef(rel, abs) ==
  IF rel = "stylesheet" \/ EndsInCss(abs) THEN AssetRef(abs) ELSE ProxyRef(abs)

\* $('link[href]').each, lines 158-169.
RewriteLink(el, base) ==
  IF el.tag # "link" \/ el.href = Absent THEN el
  ELSE With(toLowerCase(IF Falsy(el.rel) THEN "" ELSE el.rel), LAMBDA rel :
         With(absoluteUrl(base, el.href), LAMBDA abs :
           IF Falsy(abs) THEN el ELSE [el EXCEPT !.href = LinkRef(rel, abs)]))

\* One match of /url\((['"]?)(.*?)\1\)/ at the start of s: the quote is taken
\* when a closing quote and parenthesis follow, and given up otherwise.
MatchUrl(s) ==
  IF ~StartsWith(s, "url(") THEN [ok |-> FALSE]
  ELSE With(Drop(s, 4), LAMBDA rest :
    With(IF rest # "" /\ Head(rest) \in {"'", "\""}
         THEN {j \in 1..(Len(rest) - 2) : Ch(rest, j + 1) = Head(rest) /\ Ch(rest, j + 2) = ")"}
         ELSE {}, LAMBDA J :
      With({k \in 1..Len(rest) : Ch(rest, k) = ")"}, LAMBDA K :
        IF J # {}
        THEN [ok |-> TRUE, inner |-> SubSeq(rest, 2, MinOf(J)), len |-> 4 + 1 + MinOf(J) + 1]
        ELSE IF K # {}
        THEN [ok |-> TRUE, inner |-> SubSeq(rest, 1, MinOf(K) - 1), len |-> 4 + MinOf(K)]
        ELSE [ok |-> FALSE])))

\* The replacement callback of lines 175-179, for the match text m of inner.
ReplaceUrl(m, inner, base) ==
  With(absoluteUrl(base, inner), LAMBDA abs :
    IF Falsy(abs) THEN m ELSE "url('" \o AssetRef(abs) \o "')")

\* style.replace(/url\((['"]?)(.*?)\1\)/g, ...), lines 175-179.
RECURSIVE ReplaceUrls(_, _)
ReplaceUrls(str, base) ==
  With(str, LAMBDA s :
    IF s = "" THEN ""
    ELSE With(MatchUrl(s), LAMBDA m :
           IF m.ok
           THEN ReplaceUrl(SubSeq(s, 1, m.len), m.inner, base)
                \o ReplaceUrls(Drop(s, m.len), base)
           ELSE Head(s) \o ReplaceUrls(Tail(s), base)))

\* $('[style]').each, lines 172-181.
RewriteStyle(el, base) ==
  IF el.style = Absent \/ Falsy(el.style) THEN el
  ELSE [el EXCEPT !.style = ReplaceUrls(el.style, base)]

\* A candidate's suffix when its descriptor is not carried over.
DescriptorSuffixDropped(descriptor) == ""

\* The descriptor appended to a rewritten candidate, line 191.
DescriptorSuffix(descriptor) == IF ~Falsy(descriptor) THEN " " \o descriptor ELSE ""

\* The candidate callback of the srcset rewrite, lines 188-191.
RewriteCandidate(cand, base) ==
  With(cand, LAMBDA p :
    With(splitWS(p), LAMBDA toks :
      With(absoluteUrl(base, toks[1]), LAMBDA abs :
        IF Falsy(abs) THEN p
        ELSE AssetRef(abs) \o DescriptorSuffix(IF Len(toks) >= 2 THEN toks[2] ELSE Absent))))

\* parts.join(', '), line 193.
JoinCandidates(parts) == join(parts, ", ")

\* srcset.split(',').map(trim).map(...) and the join, lines 187-193.
RewriteSrcsetValue(srcset, base) ==
  With(split(srcset, ","), LAMBDA raw :
    JoinCandidates([i \in 1..Len(raw) |-> RewriteCandidate(trim(raw[i]), base)]))

\* $('img[srcset]').each, lines 184-194.
RewriteSrcset(el, base) ==
  IF el.tag # "img" \/ el.srcset = Absent \/ Falsy(el.srcset) THEN el
  ELSE [el EXCEPT !.srcset = RewriteSrcsetValue(el.srcset, base)]

\* The banner of line 197: a div with a fixed style and, in it, a link to base.
Banner(base) ==
  << Element("div", Absent, Absent, Absent,
             "position:fixed;left:0;right:0;top:0;background:rgba(0,0,0,0.55);color:#fff;padding:6px;z-index:99999;font-family:system-ui;font-size:12px;",
             Absent),
     Element("a", base, Absent, "noopener noreferrer", "color:#9cf;", Absent) >>

\* The six passes over one element, in the order of lines 137-194.
RewriteElement(el0, base) ==
  With(RewriteAnchor(el0, base), LAMBDA el1 :
    With(RewriteSrc(el1, base), LAMBDA el2 :
      With(RewriteLink(el2, base), LAMBDA el3 :
        With(RewriteStyle(el3, base), LAMBDA el4 : RewriteSrcset(el4, base)))))

\* The page rewrite of lines 133-200: the passes, then the banner prepended.
Rewrite(doc, base) ==
  [doc EXCEPT !.elems = Banner(base)
                        \o [i \in 1..Len(doc.elems) |-> RewriteElement(doc.elems[i], base)]]

(***************************************************************************)
(* The metadata of lines 57-74.                                            *)
(***************************************************************************)
\* $('link[rel="..."]').attr('href'): the href of the first link with that rel.
FirstLinkHref(doc, rel) ==
  With({i \in 1..Len(doc.elems) : doc.elems[i].tag = "link" /\ doc.elems[i].rel = rel},
       LAMBDA I : IF I = {} THEN Absent ELSE doc.elems[MinOf(I)].href)

\* u.origin + '/favicon.ico' of lines 68-73 (null when new URL(url) throws).
OriginFavicon(u) ==
  With(ParseURL(u, NoBase), LAMBDA p :
    IF ~p.ok THEN Null
    ELSE IF p.opaque THEN "null/favicon.ico"
    ELSE p.scheme \o "://" \o p.host \o (IF p.port = Absent THEN "" ELSE ":" \o p.port)
         \o "/favicon.ico")

\* The title of line 57.
ExtractTitle(doc, u) ==
  IF ~Falsy(doc.ogTitle) THEN doc.ogTitle
  ELSE IF ~Falsy(doc.title) THEN doc.title
  ELSE u

\* The first of the three icon links that has an href, lines 60-62.
IconHref(doc) ==
  With(FirstLinkHref(doc, "icon"), LAMBDA icon :
    With(FirstLinkHref(doc, "shortcut icon"), LAMBDA shortcut :
      IF ~Falsy(icon) THEN icon
      ELSE IF ~Falsy(shortcut) THEN shortcut
      ELSE FirstLinkHref(doc, "apple-touch-icon")))

\* The favicon of lines 60-74.
ExtractFavicon(doc, u) ==
  With(IconHref(doc), LAMBDA favicon :
    IF ~Falsy(favicon) THEN absoluteUrl(u, favicon) ELSE OriginFavicon(u))

(***************************************************************************)
(* Inputs: the url parameters of a request, the references found in a      *)
(* page, and the pages an upstream server can answer with.                 *)
(***************************************************************************)
MaxElems  == 1    \* elements in the body of a page
MaxChunks == 2    \* chunks of a streamed body

RequestUrls ==
  {Absent, "", "https://example.com/", "https://example.com/a/", "https://e.com/a,b/p?q#f",
   "ftp://e.com/f", "nota url"}

\* What node-fetch accepts: an absolute http or https URL.
Fetchable(u) ==
  ~Falsy(u) /\ With(ParseURL(u, NoBase), LAMBDA p : p.ok /\ p.scheme \in {"http", "https"})

AnchorHrefs ==
  {"", "#top", "javascript:x", "JavaScript:x", "mailto:x", "/about", "../up", "?q",
   "//cdn.e.com/b.js", "https://o.com/c?d#e", "http://", "http://[", " /sp"}

ImgSrcs == {"", "bg.png", "//", "https://o.com/i.png", "data:x,y"}

ScriptSrcs == {"/s.js", "http://["}

LinkHrefs ==
  {"style.css", "a.css?v=1", "a.css#f", "p#x.css", "p?x.css", "A.CSS", "/m.json", "//"}

LinkRels == {Absent, "stylesheet", "StyleSheet", "icon"}

Styles ==
  {"", "color:red", "background:url('bg.png')", "a:url(\"x.png\");b:url(y.png)",
   "a:url('//')", "a:url('q.png)", "a:url()"}

Srcsets ==
  {"", "a.png 1x, b.png 2x", "a.png", "//  2x,b.png", "a.png 1x,",
   "http://[ 2x , /c.png   3x 4x"}

Elements ==
  {Element("a", h, Absent, Absent, Absent, Absent) : h \in AnchorHrefs}
  \cup {Element("img", Absent, r, Absent, Absent, Absent) : r \in ImgSrcs}
  \cup {Element("script", Absent, r, Absent, Absent, Absent) : r \in ScriptSrcs}
  \cup {Element("link", h, Absent, r, Absent, Absent) : h \in LinkHrefs, r \in LinkRels}
  \cup {Element("link", Absent, Absent, "icon", Absent, Absent),
        Element("link", "s.ico", Absent, "shortcut icon", Absent, Absent),
        Element("link", "", Absent, "icon", Absent, Absent)}
  \cup {Element("div", Absent, Absent, Absent, t, Absent) : t \in Styles}
  \cup {Element("img", Absent, Absent, Absent, Absent, t) : t \in Srcsets}
  \cup {Element("img", Absent, "i.png", Absent, "b:url(i.png)", "i.png 2x")}
  \cup {Element("iframe", Absent, "https://o.com/frame", Absent, Absent, Absent)}

RECURSIVE SeqsUpTo(_, _)
SeqsUpTo(S, n) ==
  IF n = 0 THEN {<<>>}
  ELSE With(SeqsUpTo(S, n - 1), LAMBDA shorter :
         shorter \cup {Append(q, x) : q \in {r \in shorter : Len(r) = n - 1}, x \in S})

Docs ==
  {Document(Absent, "", elems) : elems \in SeqsUpTo(Elements, MaxElems)}
  \cup {Document(og, t, <<>>) : og \in {Absent, "", "OG"}, t \in {"", "T"}}

ContentTypes == {Absent, "text/html", "text/html; charset=utf-8", "Text/HTML", "image/png"}

Chunks == {"b1", "b2"}

(***************************************************************************)
(* One request to the server.  The handlers share no state (every name     *)
(* they use is local to the call), so one request is followed from its     *)
(* arrival to its end; pc is the handler's position at its awaits.         *)
(***************************************************************************)
\* The upstream fetch: its state, the content-type it declared, the chunks read
\* from its body by pipe, and the document parsed from its body by text().
NoUpstream ==
  [state |-> "none", ct |-> Absent, read |-> <<>>, doc |-> Document(Absent, "", <<>>)]
NoResponse == [status |-> 0, ct |-> Absent, kind |-> "none", body |-> <<>>, ended |-> FALSE]

Reply(status, ct, kind, body) ==
  [status |-> status, ct |-> ct, kind |-> kind, body |-> body, ended |-> TRUE]

\* res.status(400) of lines 50, 90 and 119.
MissingUrlReply(o) ==
  IF o = "meta" THEN Reply(400, "application/json", "json", [error |-> "missing url"])
  ELSE Reply(400, "text/html", "text", "No url")

\* The answer /meta would give if its catch block failed like the other two.
MetaHardFailureReply(u) == Reply(500, "text/html", "text", "Meta failed")

\* res.json({ title: url, favicon: null }), line 79.
MetaFallbackReply(u) ==
  Reply(200, "application/json", "json", [title |-> u, favicon |-> Null])

\* The catch blocks of lines 77-80, 107-110 and 201-204.
FailureReply(o, u) ==
  IF o = "meta" THEN MetaFallbackReply(u)
  ELSE IF o = "asset" THEN Reply(500, "text/html", "text", "Asset fetch failed")
  ELSE Reply(500, "text/html", "text", "Proxy failed")

\* res.json({ title, favicon }), lines 57-76.
MetaReply(doc, u) ==
  Reply(200, "application/json", "json",
        [title |-> ExtractTitle(doc, u), favicon |-> ExtractFavicon(doc, u)])

\* res.set('Content-Type', 'text/html; charset=utf-8'); res.send($.html()), lines 199-200.
PageReply(doc, u) == Reply(200, "text/html; charset=utf-8", "html", Rewrite(doc, u))

\* The content-type the /asset handler forwards, lines 96-97.
AssetContentType(ct) == IF ~Falsy(ct) THEN ct ELSE Absent

\* The content-type of the non-HTML branch of /proxy, lines 126-127: none is set.
RelayContentType(ct) == Absent

\* contentType.includes('text/html'), lines 123-124.
IsHtml(ct) == Includes(IF Falsy(ct) THEN "" ELSE ct, "text/html")

\* A request arrives: the handler runs to its first await (lines 49-53, 89-93, 118-122).
Request(o, u) ==
  /\ pc = "idle"
  /\ op' = o
  /\ url' = u
  /\ IF Falsy(u)
     THEN res' = MissingUrlReply(o) /\ pc' = "done" /\ up' = up
     ELSE res' = res /\ pc' = "fetch" /\ up' = [up EXCEPT !.state = "fetching"]
  /\ UNCHANGED <<client, resolverVars, uiVars>>

\* await fetch(url) rejects: invalid URL, DNS, connection error or timeout.
FetchFail ==
  /\ pc = "fetch"
  /\ up' = [up EXCEPT !.state = "failed"]
  /\ res' = FailureReply(op, url)
  /\ pc' = "done"
  /\ UNCHANGED <<op, url, client, resolverVars, uiVars>>

\* await fetch(url) resolves with the response headers.
FetchOk(ct) ==
  /\ pc = "fetch"
  /\ Fetchable(url)
  /\ up' = [up EXCEPT !.state = "open", !.ct = ct]
  /\ IF op = "meta" THEN pc' = "text" /\ res' = res
     ELSE IF op = "asset"
     THEN pc' = "pipe" /\ res' = [res EXCEPT !.ct = AssetContentType(ct), !.kind = "stream"]
     ELSE IF IsHtml(ct) THEN pc' = "text" /\ res' = res
     ELSE pc' = "fetch2" /\ res' = res
  /\ UNCHANGED <<op, url, client, resolverVars, uiVars>>

\* await r.text() resolves: the body is parsed and the answer sent.
TextOk(doc) ==
  /\ pc = "text"
  /\ up' = [up EXCEPT !.state = "ended", !.doc = doc]
  /\ res' = IF op = "meta" THEN MetaReply(doc, url) ELSE PageReply(doc, url)
  /\ pc' = "done"
  /\ UNCHANGED <<op, url, client, resolverVars, uiVars>>

\* await r.text() rejects: the body stream fails or times out.
TextFail ==
  /\ pc = "text"
  /\ up' = [up EXCEPT !.state = "failed"]
  /\ res' = FailureReply(op, url)
  /\ pc' = "done"
  /\ UNCHANGED <<op, url, client, resolverVars, uiVars>>

\* The second fetch of the non-HTML branch, line 126, and r2.body.pipe(res).
Fetch2Ok ==
  /\ pc = "fetch2"
  /\ up' = [up EXCEPT !.state = "open"]
  /\ res' = [res EXCEPT !.ct = RelayContentType(up.ct), !.kind = "stream"]
  /\ pc' = "pipe"
  /\ UNCHANGED <<op, url, client, resolverVars, uiVars>>

Fetch2Fail ==
  /\ pc = "fetch2"
  /\ up' = [up EXCEPT !.state = "failed"]
  /\ res' = FailureReply(op, url)
  /\ pc' = "done"
  /\ UNCHANGED <<op, url, client, resolverVars, uiVars>>

\* What pipe writes to the response for a chunk read from upstream.
Piped(body, c) == Append(body, c)

\* r.body.pipe(res), lines 101 and 127: a chunk arrives and is written; the
\* first write sends the headers with status 200.
PipeChunk(c) ==
  /\ pc = "pipe"
  /\ client
  /\ Len(up.read) < MaxChunks
  /\ up' = [up EXCEPT !.read = Append(@, c)]
  /\ res' = [res EXCEPT !.status = 200, !.body = Piped(@, c)]
  /\ UNCHANGED <<op, url, pc, client, resolverVars, uiVars>>

\* The upstream body ends: pipe ends the response.
PipeEnd ==
  /\ pc = "pipe"
  /\ client
  /\ up' = [up EXCEPT !.state = "ended"]
  /\ res' = [res EXCEPT !.status = 200, !.ended = TRUE]
  /\ pc' = "done"
  /\ UNCHANGED <<op, url, client, resolverVars, uiVars>>

\* The upstream body fails while it is piped.  The await of line 93 or 126 is
\* over, so no catch block runs: the error event has no listener, and the
\* response keeps what was written and is never ended.
PipeError ==
  /\ pc = "pipe"
  /\ up' = [up EXCEPT !.state = "failed"]
  /\ pc' = "broken"
  /\ UNCHANGED <<op, url, res, client, resolverVars, uiVars>>

\* The client goes away while the body is piped: pipe's close listener
\* unpipes, which pauses the upstream body; nothing destroys or aborts it.
ClientDisconnect ==
  /\ pc = "pipe"
  /\ client
  /\ client' = FALSE
  /\ up' = [up EXCEPT !.state = "paused"]
  /\ UNCHANGED <<op, url, pc, res, resolverVars, uiVars>>

ResolverIdle ==
  /\ rbase = "" /\ rref = "" /\ rout = Null /\ rpc = "idle"

UIIdle ==
  /\ tabs = <<>> /\ tabInfo = <<>> /\ active = 0 /\ pending = <<>>
  /\ iframe = "" /\ urlInput = "" /\ nextId = 1

ServerIdle ==
  /\ op = "none" /\ url = Absent /\ pc = "idle"
  /\ up = NoUpstream /\ res = NoResponse /\ client = TRUE

Init == ServerIdle /\ ResolverIdle /\ UIIdle

Next ==
  \/ \E o \in {"meta", "asset", "proxy"}, u \in RequestUrls : Request(o, u)
  \/ FetchFail
  \/ \E ct \in ContentTypes : FetchOk(ct)
  \/ \E doc \in Docs : TextOk(doc)
  \/ TextFail
  \/ Fetch2Ok
  \/ Fetch2Fail
  \/ \E c \in Chunks : PipeChunk(c)
  \/ PipeEnd
  \/ PipeError
  \/ ClientDisconnect

Spec == Init /\ [][Next]_vars

(***************************************************************************)
(* One call of absoluteUrl, for every base and reference of the inputs.    *)
(***************************************************************************)
ResolveBases ==
  {"https://example.com/", "https://example.com/a/", "https://e.com/x/y.html?q=1#f",
   "mailto:x", "nota url", ""}

ResolveRefs ==
  AnchorHrefs \cup ImgSrcs \cup ScriptSrcs \cup LinkHrefs
  \cup {"mailto:a@b.c", "javascript:alert(1)", " ", ".", "..", "./x", "#", "HTTP://O.com:80/A b",
        "https:rel", "http:rel", "ftp://e.com/f", "http://o.com:x/", "a/../../b/./c/"}

ResolveInit ==
  /\ rbase \in ResolveBases /\ rref \in ResolveRefs /\ rout = Null /\ rpc = "call"
  /\ ServerIdle /\ UIIdle

Resolve ==
  /\ rpc = "call"
  /\ rout' = absoluteUrl(rbase, rref)
  /\ rpc' = "ret"
  /\ UNCHANGED <<rbase, rref, serverVars, uiVars>>

ResolveNext == Resolve

ResolveSpec == ResolveInit /\ [][ResolveNext]_vars

(***************************************************************************)
(* The tab UI, lines 221-319.  A tab object keeps its fields after it is   *)
(* closed (a loadTab that still awaits its metadata holds it), so tabInfo  *)
(* records every tab ever created and tabs the ids of the open ones.       *)
(* active is a tab id, 0 for null.  pending lists the loadTab calls that   *)
(* await fetchMeta, with the url each asked for.                           *)
(***************************************************************************)
MaxTabs    == 2   \* tabs created in a run
MaxPending == 2   \* loadTab calls awaiting their metadata at once

DefaultUrl == "https://example.com"

TypedInputs == {"", " b.com ", "HTTP://c.com"}

\* What /meta can answer for a url: the fallback of fetchMeta, or a title and favicon.
MetaAnswers(u) ==
  {[title |-> u, favicon |-> Null], [title |-> "T", favicon |-> "https://e.com/favicon.ico"]}

\* iframe.src of line 291.
FrameSrc(u) == "/proxy?url=" \o encodeURIComponent(u)

\* The part of loadTab before its await, lines 280-285.
LoadTabStart(id, info) ==
  /\ active' = id
  /\ urlInput' = info[id].url
  /\ pending' = Append(pending, [tab |-> id, url |-> info[id].url])

\* createTab, lines 224-230, from the New Tab button, Ctrl+T or Go.
CreateTab(u) ==
  /\ nextId <= MaxTabs
  /\ Len(pending) < MaxPending
  /\ LET info == Append(tabInfo, [url |-> u, title |-> u, favicon |-> Null])
     IN  /\ tabInfo' = info
         /\ tabs' = Append(tabs, nextId)
         /\ nextId' = nextId + 1
         /\ LoadTabStart(nextId, info)
  /\ UNCHANGED iframe

NewTab == CreateTab(DefaultUrl) /\ UNCHANGED <<resolverVars, serverVars>>

\* A click on an open tab, line 266.
ClickTab(i) ==
  /\ i \in 1..Len(tabs)
  /\ Len(pending) < MaxPending
  /\ LoadTabStart(tabs[i], tabInfo)
  /\ UNCHANGED <<tabs, tabInfo, iframe, nextId, resolverVars, serverVars>>

\* The url Go navigates to, lines 297-299.
GoUrl(text) ==
  With(trim(text), LAMBDA u :
    IF StartsWith(toLowerCase(u), "http://") \/ StartsWith(toLowerCase(u), "https://")
    THEN u ELSE "https://" \o u)

\* The Go button, lines 296-304, with text in the url input.
Go(text) ==
  /\ ~Falsy(trim(text))
  /\ IF active # 0
     THEN /\ Len(pending) < MaxPending
          /\ LET info == [tabInfo EXCEPT ![active].url = GoUrl(text)]
             IN  tabInfo' = info /\ LoadTabStart(active, info)
          /\ UNCHANGED <<tabs, iframe, nextId>>
     ELSE CreateTab(GoUrl(text))
  /\ UNCHANGED <<resolverVars, serverVars>>

\* tabs.filter(t => t.id !== id), line 272.
RemoveTab(ids, id) == SelectSeq(ids, LAMBDA t : t # id)

\* closeTab, lines 271-277, from a close button or Ctrl+W.
CloseTab(i) ==
  /\ i \in 1..Len(tabs)
  /\ LET id   == tabs[i]
         left == RemoveTab(tabs, id)
         act  == IF active # 0 /\ active = id
                 THEN (IF Len(left) > 0 THEN left[1] ELSE 0)
                 ELSE active
     IN  /\ tabs' = left
         /\ IF act # 0
            THEN /\ Len(pending) < MaxPending
                 /\ LoadTabStart(act, tabInfo)
                 /\ iframe' = iframe
            ELSE /\ active' = act
                 /\ iframe' = ""
                 /\ UNCHANGED <<urlInput, pending>>
  /\ UNCHANGED <<tabInfo, nextId, resolverVars, serverVars>>

\* The rest of loadTab, lines 286-291, when fetchMeta returns for the i-th
\* awaiting call (the answers come back in any order).
MetaReturns(i, meta) ==
  /\ i \in 1..Len(pending)
  /\ LET id == pending[i].tab
     IN  /\ tabInfo' = [tabInfo EXCEPT
                          ![id].title = IF ~Falsy(meta.title) THEN meta.title ELSE tabInfo[id].url,
                          ![id].favicon = IF ~Falsy(meta.favicon) THEN AssetRef(meta.favicon)
                                          ELSE Null]
         /\ iframe' = FrameSrc(tabInfo[id].url)
  /\ pending' = [j \in 1..(Len(pending) - 1) |-> IF j < i THEN pending[j] ELSE pending[j + 1]]
  /\ UNCHANGED <<tabs, active, urlInput, nextId, resolverVars, serverVars>>

\* The page is loaded: line 319 has created the first tab.
UIInit ==
  /\ tabs = <<1>>
  /\ tabInfo = <<[url |-> DefaultUrl, title |-> DefaultUrl, favicon |-> Null]>>
  /\ active = 1
  /\ urlInput = DefaultUrl
  /\ pending = <<[tab |-> 1, url |-> DefaultUrl]>>
  /\ iframe = ""
  /\ nextId = 2
  /\ ResolverIdle /\ ServerIdle

UINext ==
  \/ NewTab
  \/ \E i \in 1..Len(tabs) : ClickTab(i)
  \/ \E text \in TypedInputs \cup {urlInput} : Go(text)
  \/ \E i \in 1..Len(tabs) : CloseTab(i)
  \/ \E i \in 1..Len(pending) : \E meta \in MetaAnswers(pending[i].url) : MetaReturns(i, meta)

UISpec == UIInit /\ [][UINext]_vars

(***************************************************************************)
(* Properties                                                              *)
(***************************************************************************)
\* The /proxy handler has answered with a rewritten page.
PageDone == pc = "done" /\ op = "proxy" /\ res.kind = "html"

\* The elements of the fetched page, and what each has become in the answer
\* (the banner's elements come first there).
InputElems == up.doc.elems
OutputOf(i) == res.body.elems[i + Len(Banner(url))]

\* The address the server is reached at (PORT, line 20).
ServerBase == "http://localhost:3000/"

\* v, as a reference in a page served from ServerBase, names another origin.
CrossOrigin(v) ==
  With(ParseURL(v, ParseURL(ServerBase, NoBase)), LAMBDA p :
    /\ p.ok
    /\ ~p.opaque
    /\ <<p.scheme, p.host, p.port>> # <<"http", "localhost", "3000">>)

\* v is a well-formed same-origin reference to exactly one of the endpoints:
\* it resolves to /proxy or /asset on the server, and all that follows "url="
\* is one percent-encoded query value.
IsEndpointRef(v) ==
  With(ParseURL(v, ParseURL(ServerBase, NoBase)), LAMBDA p :
    /\ p.ok
    /\ ~CrossOrigin(v)
    /\ p.path \in {<<"proxy">>, <<"asset">>}
    /\ p.fragment = Absent
    /\ p.query # Absent
    /\ StartsWith(p.query, "url=")
    /\ CharsOf(Drop(p.query, 4)) \subseteq (Unreserved \cup DigitChars \cup {"%"}))

\* The href and src references of a document.
RefsOf(doc) ==
  {doc.elems[i].href : i \in 1..Len(doc.elems)} \cup {doc.elems[i].src : i \in 1..Len(doc.elems)}

\* C1, as claimed: no reference anywhere in the rewritten document, the banner
\* and the elements no rule selects included, points at another origin.
C1_NoCrossOriginAnywhere ==
  PageDone => \A v \in RefsOf(res.body) \ {Absent} : ~CrossOrigin(v)

\* C1, amended: every href or src value the rewriter replaced is a well-formed
\* same-origin reference to exactly one of /proxy?url=... and /asset?url=...
\* (the banner's link, unselected elements and skipped or unresolvable
\* references can still point at another origin).
C1_RewrittenRefsAreEndpointRefs ==
  PageDone =>
    \A i \in 1..Len(InputElems) :
      /\ OutputOf(i).href # InputElems[i].href => IsEndpointRef(OutputOf(i).href)
      /\ OutputOf(i).src # InputElems[i].src => IsEndpointRef(OutputOf(i).src)

\* A page whose image source was rewritten, beside the banner's cross-origin link.
C1_Witness ==
  /\ PageDone
  /\ \E i \in 1..Len(InputElems) :
       InputElems[i].src = "https://o.com/i.png" /\ OutputOf(i).src # InputElems[i].src
  /\ \E v \in RefsOf(res.body) \ {Absent} : CrossOrigin(v)

\* The navigate and asset references the claims speak of.
NavigateRefTo(abs) == "/proxy?url=" \o encodeURIComponent(abs)
AssetRefTo(abs)    == "/asset?url=" \o encodeURIComponent(abs)

\* What C2 says an anchor's href becomes.
ClaimedAnchorHref(href) ==
  IF StartsWith(href, "#") \/ StartsWith(href, "javascript:") THEN href
  ELSE IF absoluteUrl(url, href) # Null THEN NavigateRefTo(absoluteUrl(url, href))
  ELSE href

\* C2: an anchor's href is left unchanged if it starts with "#" or
\* "javascript:"; otherwise it becomes the navigate reference to the resolved
\* URL if resolution succeeds (so "/about" at https://example.com/ encodes
\* https://example.com/about), and is left untouched if resolution fails.
C2_AnchorHrefRule ==
  PageDone =>
    \A i \in 1..Len(InputElems) :
      (InputElems[i].tag = "a" /\ InputElems[i].href # Absent)
        => /\ OutputOf(i).href = ClaimedAnchorHref(InputElems[i].href)
           /\ (url = "https://example.com/" /\ InputElems[i].href = "/about")
                => OutputOf(i).href = "/proxy?url=https%3A%2F%2Fexample.com%2Fabout"

\* The path of an absolute URL, without its query string and fragment.
PathOf(abs) == With(ParseURL(abs, NoBase), LAMBDA p : "/" \o join(p.path, "/"))

\* C3: a link's resolved href goes to the asset endpoint if and only if its
\* rel is stylesheet or the path of the resolved URL ends in .css, and to the
\* navigate endpoint in every other case.
C3_LinkHrefRule ==
  PageDone =>
    \A i \in 1..Len(InputElems) :
      (/\ InputElems[i].tag = "link"
       /\ InputElems[i].href # Absent
       /\ absoluteUrl(url, InputElems[i].href) # Null)
        => With(absoluteUrl(url, InputElems[i].href), LAMBDA abs :
             OutputOf(i).href =
               IF \/ (InputElems[i].rel # Absent /\ toLowerCase(InputElems[i].rel) = "stylesheet")
                  \/ EndsWith(toLowerCase(PathOf(abs)), ".css")
               THEN AssetRefTo(abs) ELSE NavigateRefTo(abs))

\* The candidates of a srcset value: its comma-separated parts, trimmed.
Candidates(srcset) ==
  IF srcset = "" THEN <<>>
  ELSE With(split(srcset, ","), LAMBDA raw : [j \in 1..Len(raw) |-> trim(raw[j])])

\* What C9 says a candidate becomes.
ClaimedCandidate(p) ==
  With(splitWS(p), LAMBDA toks :
    IF absoluteUrl(url, toks[1]) # Null
    THEN AssetRefTo(absoluteUrl(url, toks[1])) \o (IF Len(toks) >= 2 THEN " " \o toks[2] ELSE "")
    ELSE p)

C5_RelayKeepsBodyAndType ==
  (op = "proxy" /\ pc = "done" /\ res.kind = "stream" /\ up.ct # Absent)
    => (res.body = up.read /\ res.ct = up.ct)

\* C6: in /asset and /proxy, whenever the upstream fetch fails (at connection
\* time or while the body is read), the client gets a 500 response and no
\* upstream body bytes.
C6_UpstreamFailureIs500 ==
  (op \in {"asset", "proxy"} /\ up.state = "failed")
    => (res.status = 500 /\ res.kind = "text")

\* C7, as claimed: every /meta request is answered with a successful JSON
\* object with title and favicon fields.
C7_MetaNeverFails ==
  (op = "meta" /\ pc = "done")
    => (res.status = 200 /\ res.kind = "json" /\ DOMAIN res.body = {"title", "favicon"})

\* C7, amended: every /meta request that has a url parameter is answered with
\* a successful JSON object with title and favicon fields, and when the fetch
\* or the read of the body fails the answer is title = url, favicon = null
\* (a request without url is answered 400 with an error object).
C7_MetaWithUrlNeverFails ==
  (op = "meta" /\ pc = "done" /\ ~Falsy(url))
    => /\ res.status = 200
       /\ res.kind = "json"
       /\ DOMAIN res.body = {"title", "favicon"}
       /\ ~Falsy(res.body.title)
       /\ up.state = "failed" => res.body = [title |-> url, favicon |-> Null]

\* A /meta request whose upstream fetch failed has been answered.
C7_Witness == op = "meta" /\ pc = "done" /\ ~Falsy(url) /\ up.state = "failed"

\* C8: when the client disconnects before the streamed body is complete, the
\* upstream fetch is aborted.
C8_DisconnectAbortsUpstream ==
  (~client /\ ~res.ended) => up.state = "aborted"

\* C4: absoluteUrl never throws; a result that is not null is an absolute
\* http or https URL; javascript:, mailto: and empty references give null.
C4_ResolverHttpOnly ==
  rpc = "ret" =>
    /\ rout # Threw
    /\ rout # Null => ParseURL(rout, NoBase).scheme \in {"http", "https"}
    /\ (\/ StartsWith(toLowerCase(trim(rref)), "javascript:")
        \/ StartsWith(toLowerCase(trim(rref)), "mailto:")
        \/ rref = "") => rout = Null

\* C10: whenever no loadTab call awaits its metadata, the iframe shows the
\* proxied page of the active tab, or nothing when there is no active tab.
C10_FrameShowsActiveTab ==
  pending = <<>> =>
    iframe = IF active = 0 THEN "" ELSE "/proxy?url=" \o encodeURIComponent(tabInfo[active].url)

====
